---- MODULE Spec2Model ----
(***************************************************************************)
(* Model of tic_tac_toe_rs (src/src/main.rs): the game state held by the   *)
(* main loop, the three events the loop dispatches (mouse click, R = reset,*)
(* Escape/Quit), the per-frame update, and the pure board functions        *)
(* check_win, check_win_rows, check_draw and rotate_field_90deg.           *)
(*                                                                         *)
(* The window keeps the 600 x 600 it is built with: a resize is an event   *)
(* of the `_ => {}` arm and is not modelled.  At that size the nine cell   *)
(* rectangles are disjoint.  A failure of SDL (font, texture, canvas) ends *)
(* the program through expect and is not modelled either.                  *)
(*                                                                         *)
(* Indices are 1-based here and 0-based in the source: row r / column c of *)
(* the model is field.0[r-1][c-1] of the source.                           *)
(***************************************************************************)
EXTENDS Integers, Sequences, FiniteSets, TLC

VARIABLES
    field,            \* GameState.field : Vec<Vec<Cell>>
    field_rects,      \* GameState.field_rects : Vec<Vec<Rect>>
    current_player,   \* GameState.current_player : Sign
    has_won,          \* GameState.has_won : bool
    end_text,         \* the end text on the canvas after the last update
    running,          \* the 'running loop has not been left
    last,             \* history: the event handled by the last step
    last_mover,       \* history: the sign placed by the latest placement since the last reset
    last_completed,   \* history: the latest placement completed a full line of its sign
    last_on_empty,    \* history: the last event was a click on the place of an empty cell
    placements,       \* history: the clicks that placed a sign since the last reset
    t_size,           \* function harness: the FIELD_SIZE the functions are compiled with
    t_field,          \* function harness: the input board
    t_rot,            \* function harness: the board after t_count rotations
    t_count,          \* function harness: rotations applied so far
    t_win             \* function harness: the last check_win call and its result

vars == <<field, field_rects, current_player, has_won, end_text, running,
          last, last_mover, last_completed, last_on_empty, placements,
          t_size, t_field, t_rot, t_count, t_win>>

game_vars == <<field, field_rects, current_player, has_won, end_text, running,
               last, last_mover, last_completed, last_on_empty, placements>>

harness_vars == <<t_size, t_field, t_rot, t_count, t_win>>

----------------------------------------------------------------------------
(* Data model *)

\* enum Sign { X, O }
Sign == {"X", "O"}

\* Cell(None)
None == "None"

\* Cell(Option<Sign>)
Cell == Sign \cup {None}

\* impl From<Sign> for &str
sign_str(sign) == IF sign = "X" THEN "X" ELSE "O"

\* a plausible slip: both arms of the match give X
Not_always_x(sign) == "X"

\* impl Not for Sign
Not(sign) == IF sign = "X" THEN "O" ELSE "X"

\* Cell::is_empty
is_empty(cell) == cell = None

\* const FIELD_SIZE: usize = 3
FIELD_SIZE == 3

\* The window is built 600 x 600; canvas.window().size().0
WINDOW_WIDTH == 600

\* Field::empty(size)
FieldEmpty(size) == [r \in 1..size |-> [c \in 1..size |-> None]]

\* Field::row_count
row_count(f) == Len(f)

\* Field::column_count
column_count(f) == Len(f[1])

----------------------------------------------------------------------------
(* rotate_field_90deg *)

\* field.0.reverse()
Reverse(rows) == [k \in 1..Len(rows) |-> rows[Len(rows) + 1 - k]]

\* a plausible slip: the right-hand cell is copied over the left one, not swapped
swap_cells_copy(f, j, i) == [f EXCEPT ![j][i] = f[i][j]]

\* std::mem::swap(&mut left_item[i], &mut right[0][j]): left_item is row j,
\* right[0] is row i
swap_cells(f, j, i) == [f EXCEPT ![j][i] = f[i][j], ![i][j] = f[j][i]]

\* for (j, left_item) in left.iter_mut().enumerate().take(i): rows j < i
RECURSIVE rotate_inner(_, _, _)
rotate_inner(f, i, j) ==
    IF j >= i THEN f
    ELSE rotate_inner(swap_cells(f, j, i), i, j + 1)

\* for i in 1..field.0.len()  (second row to last row)
RECURSIVE rotate_outer(_, _)
rotate_outer(f, i) ==
    IF i > Len(f) THEN f
    ELSE rotate_outer(rotate_inner(f, i, 1), i + 1)

\* a plausible slip: the rows are not reversed before the transposition
rotate_no_reverse(f) == rotate_outer(f, 2)

\* fn rotate_field_90deg(field: &Field) -> Field
rotate_field_90deg(f) == rotate_outer(Reverse(f), 2)

----------------------------------------------------------------------------
(* check_win, check_win_rows, check_draw.  field_size is the FIELD_SIZE    *)
(* the program is compiled with.                                           *)

\* slice::windows(n): every run of n consecutive rows
windows(rows, n) == {SubSeq(rows, a, a + n - 1) : a \in 1..(Len(rows) - n + 1)}

\* vec![Cell(Some(*player)); FIELD_SIZE]
full_row(field_size, player) == [c \in 1..field_size |-> player]

\* fn check_win_rows: some window contains a row equal to the all-player row
check_win_rows(field_size, f, player) ==
    \E w \in windows(f, field_size) :
        \E k \in 1..Len(w) : w[k] = full_row(field_size, player)

\* a plausible slip: the diagonals are not compared with the player
check_win_any_diag(field_size, f, player) ==
    \/ check_win_rows(field_size, f, player)
    \/ /\ f[2][2] # None
       /\ \/ f[1][1] = f[2][2] /\ f[2][2] = f[3][3]
          \/ f[1][3] = f[2][2] /\ f[2][2] = f[3][1]
    \/ check_win_rows(field_size, rotate_field_90deg(f), player)

\* fn check_win: rows, then the two diagonals through field.0[1][1] (the
\* indices 0, 1, 2 are literals of the source), then the rotated rows
check_win(field_size, f, player) ==
    \/ check_win_rows(field_size, f, player)
    \/ /\ f[2][2] # None
       /\ \/ f[2][2] = player /\ f[1][1] = f[2][2] /\ f[2][2] = f[3][3]
          \/ f[2][2] = player /\ f[1][3] = f[2][2] /\ f[2][2] = f[3][1]
    \/ check_win_rows(field_size, rotate_field_90deg(f), player)

\* a plausible slip: true is returned after the first row, inside the loop
check_draw_first_row(f) ==
    \A c \in 1..Len(f[1]) : f[1][c] # None

\* fn check_draw: no cell is None
check_draw(f) ==
    \A r \in 1..Len(f) : \A c \in 1..Len(f[r]) : f[r][c] # None

----------------------------------------------------------------------------
(* Field::draw: the on-screen rectangles of the cells *)

\* Rect::new(x, y, width, height)
Rect(x, y, w, h) == [x |-> x, y |-> y, w |-> w, h |-> h]

\* let cell_size = window_size.0 / 5
cell_size == WINDOW_WIDTH \div 5

\* let padding = cell_size / 4
padding == cell_size \div 4

\* cell_size * row_count + padding * (row_count - 1)
field_size_px(f) == cell_size * row_count(f) + padding * (row_count(f) - 1)

\* remaining_window_width and remaining_window_height: both take the width
remaining_window(f) == WINDOW_WIDTH - field_size_px(f)

\* cell_x_pos (idx = col_idx) and cell_y_pos (idx = row_idx), idx 0-based
cell_pos(f, idx) == remaining_window(f) \div 2 + (cell_size * idx + padding * idx)

\* the rectangles Field::draw stores in game_state.field_rects: the table is
\* created row_count x column_count if empty, then every entry is overwritten
draw_rects(f, rects) ==
    [r \in 1..row_count(f) |->
        [c \in 1..column_count(f) |->
            Rect(cell_pos(f, c - 1), cell_pos(f, r - 1), cell_size, cell_size)]]

----------------------------------------------------------------------------
(* on_mouse_clicked *)

\* Point::new(x_pos, y_pos)
Point(x, y) == [x |-> x, y |-> y]

\* Rect::contains_point (sdl2): left and top inclusive, right and bottom exclusive
contains_point(rect, point) ==
    /\ point.x >= rect.x /\ point.x < rect.x + rect.w
    /\ point.y >= rect.y /\ point.y < rect.y + rect.h

\* a plausible slip: the player is not switched after a placement
switch_player_stuck(player) == player

\* fn switch_player: *current_player = !*current_player
switch_player(player) == Not(player)

\* the row and the column of the k-th rectangle visited (k from 0, row-major)
visit_row(rects, k) == (k \div Len(rects[1])) + 1
visit_col(rects, k) == (k % Len(rects[1])) + 1

\* a plausible slip: the emptiness of the cell is not tested
click_cell_overwrite(st, rect, r, c, point) ==
    IF contains_point(rect, point)
    THEN [field |-> [st.field EXCEPT ![r][c] = st.current_player],
          current_player |-> switch_player(st.current_player)]
    ELSE st

\* a plausible slip: || for &&
click_cell_or(st, rect, r, c, point) ==
    IF contains_point(rect, point) \/ is_empty(st.field[r][c])
    THEN [field |-> [st.field EXCEPT ![r][c] = st.current_player],
          current_player |-> switch_player(st.current_player)]
    ELSE st

\* a plausible slip: the call of switch_player is missing
click_cell_no_switch(st, rect, r, c, point) ==
    IF contains_point(rect, point) /\ is_empty(st.field[r][c])
    THEN [field |-> [st.field EXCEPT ![r][c] = st.current_player],
          current_player |-> st.current_player]
    ELSE st

\* the body of the two loops of on_mouse_clicked for one rectangle
click_cell(st, rect, r, c, point) ==
    IF contains_point(rect, point) /\ is_empty(st.field[r][c])
    THEN [field |-> [st.field EXCEPT ![r][c] = st.current_player],
          current_player |-> switch_player(st.current_player)]
    ELSE st

\* for (row_idx, rows) in field_rects ... for (col_idx, rect) in rows ...
RECURSIVE click_loop(_, _, _, _)
click_loop(st, rects, point, k) ==
    IF Len(rects) = 0 \/ k >= Len(rects) * Len(rects[1]) THEN st
    ELSE LET r == visit_row(rects, k)
             c == visit_col(rects, k)
         IN click_loop(click_cell(st, rects[r][c], r, c, point), rects, point, k + 1)

\* fn on_mouse_clicked(x_pos, y_pos, game_state): field and current_player after it
on_mouse_clicked(x_pos, y_pos, f, rects, player) ==
    click_loop([field |-> f, current_player |-> player], rects, Point(x_pos, y_pos), 0)

----------------------------------------------------------------------------
(* update, reset_game, get_random_player *)

\* "Player " + sign + " has won!"
won_text(sign) == "Player " \o sign_str(sign) \o " has won!"

\* "It is a tie!"
tie_text == "It is a tie!"

\* canvas.clear(): no end text on the canvas
no_text == ""

\* a plausible slip: the draw is tested before the win
update_draw_first(f, rects, player, won) ==
    IF check_draw(f)
    THEN [field_rects |-> draw_rects(f, rects), has_won |-> won, end_text |-> tie_text]
    ELSE IF check_win(FIELD_SIZE, f, Not(player))
    THEN [field_rects |-> draw_rects(f, rects), has_won |-> TRUE,
          end_text |-> won_text(Not(player))]
    ELSE [field_rects |-> draw_rects(f, rects), has_won |-> won, end_text |-> no_text]

\* a plausible slip: the win of current_player is tested, not of its negation
update_current_player(f, rects, player, won) ==
    IF check_win(FIELD_SIZE, f, player)
    THEN [field_rects |-> draw_rects(f, rects), has_won |-> TRUE,
          end_text |-> won_text(Not(player))]
    ELSE IF check_draw(f)
    THEN [field_rects |-> draw_rects(f, rects), has_won |-> won, end_text |-> tie_text]
    ELSE [field_rects |-> draw_rects(f, rects), has_won |-> won, end_text |-> no_text]

\* a plausible slip: the else-if arm of the draw is missing
update_no_tie(f, rects, player, won) ==
    IF check_win(FIELD_SIZE, f, Not(player))
    THEN [field_rects |-> draw_rects(f, rects), has_won |-> TRUE,
          end_text |-> won_text(Not(player))]
    ELSE [field_rects |-> draw_rects(f, rects), has_won |-> won, end_text |-> no_text]

\* fn update: draws the field (which stores the rectangles), then tests the
\* win of !current_player, else the draw
update(f, rects, player, won) ==
    IF check_win(FIELD_SIZE, f, Not(player))
    THEN [field_rects |-> draw_rects(f, rects), has_won |-> TRUE,
          end_text |-> won_text(Not(player))]
    ELSE IF check_draw(f)
    THEN [field_rects |-> draw_rects(f, rects), has_won |-> won, end_text |-> tie_text]
    ELSE [field_rects |-> draw_rects(f, rects), has_won |-> won, end_text |-> no_text]

\* fn get_random_player: gen_range(0..=1), 0 => O, 1 => X
get_random_player == {"O", "X"}

\* a plausible slip: the won flag survives the reset
reset_game_keep_won(won, player) ==
    [field |-> FieldEmpty(FIELD_SIZE), field_rects |-> <<>>,
     current_player |-> player, has_won |-> won]

\* fn reset_game: player is the value get_random_player returns
reset_game(won, player) ==
    [field |-> FieldEmpty(FIELD_SIZE), field_rects |-> <<>>,
     current_player |-> player, has_won |-> FALSE]

----------------------------------------------------------------------------
(* History of the run: what the last event was aimed at *)

\* the cells whose stored rectangle contains the clicked point
hit_cells(rects, x, y) ==
    IF Len(rects) = 0 THEN {}
    ELSE {rc \in (1..Len(rects)) \X (1..Len(rects[1])) :
             contains_point(rects[rc[1]][rc[2]], Point(x, y))}

\* the target of a click, from the state before it
click_target(f, rects, x, y) ==
    IF hit_cells(rects, x, y) = {} THEN "click_outside"
    ELSE IF \A rc \in hit_cells(rects, x, y) : f[rc[1]][rc[2]] # None
    THEN "click_occupied"
    ELSE "click_empty"

\* whether the point lies in the rectangle Field::draw gives an empty cell of
\* f in the window, stored in field_rects or not
on_empty_cell(f, rects, x, y) ==
    \E r \in 1..Len(f), c \in 1..Len(f) :
        /\ f[r][c] = None
        /\ contains_point(draw_rects(f, rects)[r][c], Point(x, y))

\* the cells a step wrote
written_cells(f, g) ==
    {rc \in (1..Len(f)) \X (1..Len(f)) : f[rc[1]][rc[2]] # g[rc[1]][rc[2]]}

\* the sign of the latest placement, after a click that wrote the cells
\* `written` and left the board g
mover_after(g, written, mover) ==
    IF written = {} THEN mover
    ELSE LET rc == CHOOSE w \in written : TRUE IN g[rc[1]][rc[2]]

\* the full lines of a board of side n, each a set of <<row, column>>
Lines(n) ==
    {{<<r, c>> : c \in 1..n} : r \in 1..n}
        \cup {{<<r, c>> : r \in 1..n} : c \in 1..n}
        \cup {{<<i, i>> : i \in 1..n}}
        \cup {{<<i, n + 1 - i>> : i \in 1..n}}

\* every cell of some full line of f holds m
HasLine(n, f, m) ==
    \E line \in Lines(n) : \A rc \in line : f[rc[1]][rc[2]] = m

\* every cell of f is occupied
BoardFull(f) ==
    \A r \in 1..Len(f) : \A c \in 1..Len(f) : f[r][c] \in Sign

\* whether the latest placement completed a line, after a click that wrote
\* the cells `written` and left the board g
completed_after(g, written, completed) ==
    IF written = {} THEN completed
    ELSE LET rc == CHOOSE w \in written : TRUE
         IN \E line \in Lines(Len(g)) :
                /\ rc \in line
                /\ \A q \in line : g[q[1]][q[2]] = g[rc[1]][rc[2]]

----------------------------------------------------------------------------
(* main: the game loop.  poll_iter hands over the pending events one by    *)
(* one, update runs when none is pending, so any number of events (none    *)
(* included) is handled between two updates.                               *)

\* the x and y of the clicks tried: the first pixel of the first cell, the
\* first pixel of the gap after it, inside the second cell, the last pixel of
\* the third cell
Coords == {90, 210, 300, 509}

\* the state of the function harness while the game runs
HarnessIdle ==
    /\ t_size = 0
    /\ t_field = <<>>
    /\ t_rot = <<>>
    /\ t_count = 0
    /\ t_win = [called |-> FALSE, player |-> None, result |-> FALSE]

\* GameState { field: Field::empty(FIELD_SIZE), field_rects: vec![],
\*             current_player: get_random_player(), has_won: false }
Init ==
    /\ field = FieldEmpty(FIELD_SIZE)
    /\ field_rects = <<>>
    /\ current_player \in get_random_player
    /\ has_won = FALSE
    /\ end_text = no_text
    /\ running = TRUE
    /\ last = "init"
    /\ last_mover = None
    /\ last_completed = FALSE
    /\ last_on_empty = FALSE
    /\ placements = 0
    /\ HarnessIdle

\* Event::MouseButtonDown { y, x, .. } if !game_state.has_won => on_mouse_clicked;
\* with has_won set the event falls to `_ => {}`
MouseButtonDown(x, y) ==
    /\ running
    /\ \E st \in {IF ~has_won
                  THEN on_mouse_clicked(x, y, field, field_rects, current_player)
                  ELSE [field |-> field, current_player |-> current_player]} :
          /\ field' = st.field
          /\ current_player' = st.current_player
          /\ \E written \in {written_cells(field, st.field)} :
                /\ last_mover' = mover_after(st.field, written, last_mover)
                /\ last_completed' = completed_after(st.field, written, last_completed)
                /\ placements' = IF written = {} THEN placements ELSE placements + 1
    /\ last' = click_target(field, field_rects, x, y)
    /\ last_on_empty' = on_empty_cell(field, field_rects, x, y)
    /\ UNCHANGED <<field_rects, has_won, end_text, running>>
    /\ UNCHANGED harness_vars

\* Event::KeyDown { keycode: Some(Keycode::R), .. } => game_state = reset_game(game_state)
KeyDownR ==
    /\ running
    /\ \E player \in get_random_player :
          \E gs \in {reset_game(has_won, player)} :
             /\ field' = gs.field
             /\ field_rects' = gs.field_rects
             /\ current_player' = gs.current_player
             /\ has_won' = gs.has_won
    /\ last' = "reset"
    /\ last_mover' = None
    /\ last_completed' = FALSE
    /\ last_on_empty' = FALSE
    /\ placements' = 0
    /\ UNCHANGED <<end_text, running>>
    /\ UNCHANGED harness_vars

\* update(&mut canvas, &mut game_state) at the end of a loop iteration
Update ==
    /\ running
    /\ \E u \in {update(field, field_rects, current_player, has_won)} :
          /\ field_rects' = u.field_rects
          /\ has_won' = u.has_won
          /\ end_text' = u.end_text
    /\ last' = "update"
    /\ last_on_empty' = FALSE
    /\ UNCHANGED <<field, current_player, running, last_mover, last_completed,
                   placements>>
    /\ UNCHANGED harness_vars

\* Event::Quit | KeyDown Escape => break 'running
Quit ==
    /\ running
    /\ running' = FALSE
    /\ last' = "quit"
    /\ last_on_empty' = FALSE
    /\ UNCHANGED <<field, field_rects, current_player, has_won, end_text,
                   last_mover, last_completed, placements>>
    /\ UNCHANGED harness_vars

Next ==
    \/ \E x \in Coords, y \in Coords : MouseButtonDown(x, y)
    \/ KeyDownR
    \/ Update
    \/ Quit

Spec == Init /\ [][Next]_vars

----------------------------------------------------------------------------
(* The board functions on their own: rotate_field_90deg and check_win      *)
(* applied to boards of side 1..MaxN.                                      *)

\* the largest board side tried
MaxN == 4

\* the number of rotations applied to one board
MaxRotations == 4

\* the rows of the boards larger than FIELD_SIZE: empty, one X, or full
SparseRows(n) ==
    {[c \in 1..n |-> None]}
        \cup {[c \in 1..n |-> IF c = k THEN "X" ELSE None] : k \in 1..n}
        \cup {full_row(n, s) : s \in Sign}

\* the boards tried: every board up to side FIELD_SIZE, the boards of sparse
\* rows above it
TestBoards(n) ==
    IF n <= FIELD_SIZE THEN [1..n -> [1..n -> Cell]] ELSE [1..n -> SparseRows(n)]

\* the game does not run while the functions are tried
GameIdle ==
    /\ field = FieldEmpty(FIELD_SIZE)
    /\ field_rects = <<>>
    /\ current_player = "O"
    /\ has_won = FALSE
    /\ end_text = no_text
    /\ running = FALSE
    /\ last = "init"
    /\ last_mover = None
    /\ last_completed = FALSE
    /\ last_on_empty = FALSE
    /\ placements = 0

InitFn ==
    /\ GameIdle
    /\ t_size \in 1..MaxN
    /\ t_field \in TestBoards(t_size)
    /\ t_rot = t_field
    /\ t_count = 0
    /\ t_win = [called |-> FALSE, player |-> None, result |-> FALSE]

\* t_rot = rotate_field_90deg(&t_rot)
Rotate ==
    /\ ~t_win.called
    /\ t_count < MaxRotations
    /\ t_rot' = rotate_field_90deg(t_rot)
    /\ t_count' = t_count + 1
    /\ UNCHANGED <<t_size, t_field, t_win>>
    /\ UNCHANGED game_vars

\* check_win(&t_field, &player), compiled with FIELD_SIZE = t_size; the
\* indices 1 and 2 of check_win are out of range on a side below 3
CheckWin(player) ==
    /\ t_size >= 3
    /\ t_count = 0
    /\ ~t_win.called
    /\ t_win' = [called |-> TRUE, player |-> player,
                 result |-> check_win(t_size, t_field, player)]
    /\ UNCHANGED <<t_size, t_field, t_rot, t_count>>
    /\ UNCHANGED game_vars

NextFn ==
    \/ Rotate
    \/ \E player \in Sign : CheckWin(player)

SpecFn == InitFn /\ [][NextFn]_vars

----------------------------------------------------------------------------
(* Claims *)

\* the labels a mouse click leaves in the history
ClickLabels == {"click_outside", "click_occupied", "click_empty"}

\* the game has ended on the board: a full line of one sign, or no empty cell
GameOver ==
    \/ \E m \in Sign : HasLine(FIELD_SIZE, field, m)
    \/ BoardFull(field)

\* C1: once a move has completed a full line for the mover or filled the
\* board, no later click changes the board, the current player or the won
\* status until a reset, the clicks handled before the next update included.
C1_NoClickAfterEnd ==
    [][(GameOver /\ last' \in ClickLabels)
           => UNCHANGED <<field, current_player, has_won>>]_vars

\* C2: on every 3x3 board check_win(board, m) is true exactly when a row, a
\* column, the main diagonal or the anti-diagonal holds m in all three cells.
C2_CheckWinIffLine ==
    (t_win.called /\ t_size = FIELD_SIZE)
        => (t_win.result <=> HasLine(FIELD_SIZE, t_field, t_win.player))

\* check_win answered true on a 3x3 board whose only line of the player is
\* the anti-diagonal, the other sign holding no line
C2_Witness ==
    /\ t_win.called /\ t_size = FIELD_SIZE /\ t_win.result
    /\ \A i \in 1..FIELD_SIZE : t_field[i][FIELD_SIZE + 1 - i] = t_win.player
    /\ \A i \in 1..FIELD_SIZE : t_field[i][i] # t_win.player \/ i = 2
    /\ ~HasLine(FIELD_SIZE, t_field, Not(t_win.player))

\* C3: when the board is full and the move that filled it completed a full
\* line for the mover, update reports the win of that mover, not the tie.
C3_WinBeforeTie ==
    (last = "update" /\ BoardFull(field) /\ last_completed)
        => (end_text = won_text(last_mover) /\ end_text # tie_text /\ has_won)

\* update ran on a full board whose last placement completed a line
C3_Witness ==
    /\ last = "update" /\ BoardFull(field) /\ last_completed
    /\ end_text = won_text(last_mover)

\* C4: a click on an occupied cell changes neither the board, nor the
\* current player, nor the won status.
C4_OccupiedRejected ==
    [][last' = "click_occupied"
           => UNCHANGED <<field, current_player, has_won>>]_vars

\* an occupied cell was clicked while the game was in progress
C4_Witness ==
    /\ last = "click_occupied" /\ ~has_won /\ ~GameOver

\* C5: two consecutive accepted placements with no reset between them place
\* different signs, each the current player's, and a click that places
\* nothing leaves the current player as it was.
C5_TurnsAlternate ==
    [][last' \in ClickLabels
           => IF field' # field
              THEN /\ last_mover' = current_player
                   /\ last_mover # None => last_mover' # last_mover
              ELSE current_player' = current_player]_vars

\* a placement followed another placement of the same game
C5_Witness ==
    /\ last = "click_empty" /\ last_mover = "X"
    /\ \E r \in 1..FIELD_SIZE, c \in 1..FIELD_SIZE : field[r][c] = "X"
    /\ \E r \in 1..FIELD_SIZE, c \in 1..FIELD_SIZE : field[r][c] = "O"

\* C6: reset can be taken in every state of the running program, with either
\* sign as the new current player, and leaves an empty board with the won
\* status cleared.
C6_Reset ==
    /\ last = "reset" =>
          /\ field = FieldEmpty(FIELD_SIZE)
          /\ ~has_won
          /\ current_player \in Sign
    /\ running => \A p \in Sign : ENABLED (KeyDownR /\ current_player' = p)

\* a reset of a won game put the loser's sign first (the canvas still shows
\* the text of the last frame)
C6_Witness ==
    /\ last = "reset" /\ end_text = won_text("X") /\ current_player = "O"
    /\ field = FieldEmpty(FIELD_SIZE) /\ ~has_won

\* C7: for a board side N > 3 check_win(board, m) is true exactly when a
\* row, a column, the main diagonal (i,i) or the anti-diagonal (i,N-1-i)
\* holds m in all N cells.
C7_CheckWinAnySide ==
    (t_win.called /\ t_size > FIELD_SIZE)
        => (t_win.result <=> HasLine(t_size, t_field, t_win.player))

\* C8: rotate_field_90deg is a clockwise quarter turn: the cell at row i,
\* column j of the input is at row j, column N-1-i of the output.
C8_RotateClockwise ==
    t_count = 1 =>
        /\ Len(t_rot) = t_size
        /\ \A i \in 1..t_size : Len(t_rot[i]) = t_size
        /\ \A i \in 1..t_size, j \in 1..t_size :
               t_rot[j][t_size + 1 - i] = t_field[i][j]

\* a board of the largest side was rotated once and changed
C8_Witness ==
    /\ t_count = 1 /\ t_size = MaxN
    /\ t_field[1][2] = "X" /\ t_rot[2][t_size] = "X"
    /\ t_rot # t_field

\* C9: four applications of rotate_field_90deg give back the board, cell by
\* cell.
C9_FourRotations ==
    t_count = 4 => t_rot = t_field

\* an asymmetric board of the largest side was rotated four times
C9_Witness ==
    /\ t_count = 4 /\ t_size = MaxN
    /\ t_field[1][2] = "X" /\ t_field[2][1] = None

\* the indices on_mouse_clicked takes from field_rects are indices of field
IndexSafe ==
    \A r \in 1..Len(field_rects) :
        /\ r <= Len(field)
        /\ Len(field_rects[r]) <= Len(field[r])

\* C10: a click that falls in no cell rectangle changes neither the board,
\* nor the current player, nor the won status, and the handler never indexes
\* the board out of range.
C10_OutsideRejected ==
    /\ []IndexSafe
    /\ [][last' = "click_outside"
             => UNCHANGED <<field, current_player, has_won>>]_vars

\* a click fell between the rectangles of a game in progress
C10_Witness ==
    /\ last = "click_outside" /\ field_rects # <<>>
    /\ ~has_won /\ ~GameOver

\* the cells, and the number of cells of f that hold m
Cells == (1..FIELD_SIZE) \X (1..FIELD_SIZE)

CountOf(f, m) == Cardinality({rc \in Cells : f[rc[1]][rc[2]] = m})

\* C11: in every step other than a reset each occupied cell keeps the sign it
\* holds: no sign is overwritten or cleared.
C11_CellsKeepSign ==
    [][last' # "reset"
           => \A rc \in Cells :
                  field[rc[1]][rc[2]] # None
                      => field'[rc[1]][rc[2]] = field[rc[1]][rc[2]]]_vars

\* a third sign was placed beside two that stayed
C11_Witness ==
    /\ last = "click_empty" /\ placements = 3
    /\ CountOf(field, "X") + CountOf(field, "O") = 3

\* C12: update reports the tie exactly when every cell is occupied and the
\* sign that moved last holds no full line; never while a cell is empty.
C12_TieIffFullNoWin ==
    last = "update"
        => (end_text = tie_text
                <=> (BoardFull(field) /\ ~HasLine(FIELD_SIZE, field, last_mover)))

\* update reported the tie on a full board
C12_Witness ==
    /\ last = "update" /\ end_text = tie_text /\ BoardFull(field)
    /\ ~HasLine(FIELD_SIZE, field, "X") /\ ~HasLine(FIELD_SIZE, field, "O")

\* the step is a click that placed a sign
Placement == last' \in ClickLabels /\ field' # field

\* C13 as stated: after a move that wins the game or fills the board the
\* current mark is still the mark that made that move.
C13_NoToggleAtEnd ==
    [][(Placement /\ (last_completed' \/ BoardFull(field')))
           => current_player' = last_mover']_vars

\* C13 as amended: every placement toggles the current mark, a placement that
\* wins the game or fills the board included; after it the current mark is
\* the negation of the mark that made the move.
C13_ToggleAlways ==
    [][Placement
           => /\ current_player' = Not(last_mover')
              /\ current_player' # current_player]_vars

\* a placement completed a line and the current mark is the other sign
C13_Witness ==
    /\ last = "click_empty" /\ last_completed /\ last_on_empty
    /\ current_player = Not(last_mover)
    /\ HasLine(FIELD_SIZE, field, last_mover)

\* C14: whenever the won status is set, the negation of current_player is the
\* sign of the latest placement and holds a full line of the board, and the
\* status stays set until a reset.
C14_WinnerIsLastMover ==
    /\ [](has_won => /\ Not(current_player) = last_mover
                     /\ HasLine(FIELD_SIZE, field, last_mover))
    /\ [][(has_won /\ last' # "reset") => has_won']_vars

\* update set the won status and announced the sign that moved last
C14_Witness ==
    /\ has_won /\ last = "update"
    /\ end_text = won_text(last_mover)
    /\ HasLine(FIELD_SIZE, field, last_mover)
    /\ ~BoardFull(field)

\* C15: with no win flagged, a click on an empty cell places the current
\* player's sign in that cell and leaves every other cell unchanged, also
\* right after the game start or a reset, before the next update.
C15_ClickPlaces ==
    [][(last' \in ClickLabels /\ last_on_empty' /\ ~has_won)
           => \E rc \in Cells :
                  /\ field[rc[1]][rc[2]] = None
                  /\ field' = [field EXCEPT ![rc[1]][rc[2]] = current_player]]_vars

\* the same with the rectangles stored by an update since the start or reset
ClickPlacesOnceDrawn ==
    [][(last' \in ClickLabels /\ last_on_empty' /\ ~has_won /\ field_rects # <<>>)
           => \E rc \in Cells :
                  /\ field[rc[1]][rc[2]] = None
                  /\ field' = [field EXCEPT ![rc[1]][rc[2]] = current_player]]_vars

\* C16: in every reachable state at most one of the two signs holds a full
\* row, column or diagonal.
C16_OneWinnerAtMost ==
    ~(HasLine(FIELD_SIZE, field, "X") /\ HasLine(FIELD_SIZE, field, "O"))

\* C17: the cells holding the negation of current_player are as many as the
\* cells holding current_player, or one more.
C17_MarkBalance ==
    \A m \in Sign, o \in Sign :
        (m = current_player /\ o # m)
            => CountOf(field, o) - CountOf(field, m) \in {0, 1}

\* three signs against two, the current player holding the two
C17_Witness ==
    /\ CountOf(field, "X") = 3
    /\ CountOf(field, "O") = 2
    /\ current_player = "O"
    /\ placements = 5

\* the text update leaves on the canvas when the game has ended
EndTexts == {tie_text} \cup {won_text(m) : m \in Sign}

\* C18: at most FIELD_SIZE * FIELD_SIZE clicks place a sign between two
\* resets; when that many have, the next update reports a win or a tie and no
\* later click places a sign.
C18_GameEnds ==
    /\ [](/\ placements <= FIELD_SIZE * FIELD_SIZE
          /\ placements = CountOf(field, "X") + CountOf(field, "O"))
    /\ []((last = "update" /\ placements = FIELD_SIZE * FIELD_SIZE)
              => end_text \in EndTexts)
    /\ [][(placements = FIELD_SIZE * FIELD_SIZE /\ last' \in ClickLabels)
              => UNCHANGED <<field, current_player, placements>>]_vars

\* a click came after the update that followed the ninth placement
C18_Witness ==
    /\ placements = FIELD_SIZE * FIELD_SIZE
    /\ last = "click_occupied"
    /\ end_text = tie_text

====
